---- MODULE Spec2Model ----
(***************************************************************************)
(* RSON (rson-rs/ron): the byte cursor of src/parse.rs and the serializer  *)
(* of src/ser/mod.rs as state machines.  Bytes are integers 0..255,        *)
(* strings are sequences of bytes, chars are Unicode code points.          *)
(***************************************************************************)
EXTENDS Integers, Sequences, FiniteSets, TLC

VARIABLES
    bytes,         \* Bytes.bytes: the input not yet consumed
    line,          \* Bytes.line
    column,        \* Bytes.column
    src,           \* history: how the input of this run was built
    ret,           \* history: the last cursor operation, the cursor before it, its result
    nops,          \* history: number of cursor operations so far
    output,        \* Serializer.output
    pretty,        \* Serializer.pretty: [is_some, indent]
    struct_names,  \* Serializer.struct_names
    stack,         \* the serializer's open containers, innermost last
    phase,         \* the serializer's caller: "idle", "value" (a value is due), "done"
    last,          \* history: the last container closed by an end()
    entry,         \* history: the function that built the serializer
    pc             \* where a skip_ws that runs step by step is: "idle", "spaces", "done"

cursorVars == <<bytes, line, column, src, ret, nops, pc>>
serVars == <<output, pretty, struct_names, stack, phase, last, entry>>
vars == <<bytes, line, column, src, ret, nops, output, pretty, struct_names, stack, phase, last, entry, pc>>

(***************************************************************************)
(* Byte literals                                                           *)
(***************************************************************************)
\* The printable ASCII characters, 0x20 .. 0x7E, in code order (0x60 is
\* written by name: a string cannot hold it).
Ascii ==
 <<
    " ", "!", "\"", "#", "$", "%", "&", "'", "(", ")", "*", "+", ",", "-", ".", "/",
    "0", "1", "2", "3", "4", "5", "6", "7", "8", "9", ":", ";", "<", "=", ">", "?",
    "@", "A", "B", "C", "D", "E", "F", "G", "H", "I", "J", "K", "L", "M", "N", "O",
    "P", "Q", "R", "S", "T", "U", "V", "W", "X", "Y", "Z", "[", "\\", "]", "^", "_",
    "grave", "a", "b", "c", "d", "e", "f", "g", "h", "i", "j", "k", "l", "m", "n", "o",
    "p", "q", "r", "s", "t", "u", "v", "w", "x", "y", "z", "{", "|", "}", "~"
 >>

\* b'c': the byte of an ASCII character.
Ord(ch) ==
    CASE ch = "\t" -> 9
      [] ch = "\n" -> 10
      [] ch = "\r" -> 13
      [] OTHER -> 31 + (CHOOSE i \in 1..Len(Ascii) : Ascii[i] = ch)

\* b"...": the bytes of a literal given as a sequence of characters.
Str(chars) == [i \in 1..Len(chars) |-> Ord(chars[i])]

\* n times the byte b.
Repeat(b, n) == [i \in 1..n |-> b]

DIGITS == Ord("0")..Ord("9")
FLOAT_CHARS == DIGITS \cup {Ord("."), Ord("+"), Ord("-"), Ord("e"), Ord("E")}
IDENT_FIRST == (Ord("A")..Ord("Z")) \cup (Ord("a")..Ord("z")) \cup {Ord("_")}
IDENT_CHAR == IDENT_FIRST \cup DIGITS
WHITE_SPACE == {Ord("\n"), Ord("\t"), Ord("\r"), Ord(" ")}

\* The bytes the code names one at a time.
LF == Ord("\n")
QUOTE == Ord("\"")
BACKSLASH == Ord("\\")
HASH == Ord("#")
SLASH == Ord("/")
STAR == Ord("*")
PLUS == Ord("+")
MINUS == Ord("-")
DOT == Ord(".")
COMMA == Ord(",")

(***************************************************************************)
(* Results and errors                                                      *)
(***************************************************************************)
Ok(v) == [ok |-> TRUE, v |-> v]

\* Bytes::error: the kind with the cursor's current position.
Error(c, kind) == [ok |-> FALSE, kind |-> kind, line |-> c.line, col |-> c.column]

(***************************************************************************)
(* Cursor primitives.  c is a Bytes value: [bytes, line, column].          *)
(***************************************************************************)
Peek(c) == IF c.bytes = <<>> THEN -1 ELSE c.bytes[1]

\* A variant of advance_single that counts the column on after a newline.
AdvanceSingleNoReset(c) ==
    IF c.bytes = <<>>
    THEN [c |-> c, val |-> Error(c, "Eof")]
    ELSE [c |-> [bytes  |-> Tail(c.bytes),
                 line   |-> IF c.bytes[1] = LF THEN c.line + 1 ELSE c.line,
                 column |-> c.column + 1],
          val |-> Ok(TRUE)]

\* advance_single: Err(Eof) at the end of input, else one byte forward.
AdvanceSingle(c) ==
    IF c.bytes = <<>>
    THEN [c |-> c, val |-> Error(c, "Eof")]
    ELSE [c |-> [bytes  |-> Tail(c.bytes),
                 line   |-> IF c.bytes[1] = LF THEN c.line + 1 ELSE c.line,
                 column |-> IF c.bytes[1] = LF THEN 1 ELSE c.column + 1],
          val |-> Ok(TRUE)]

\* advance(n): n times advance_single, stopping at the first Err.
RECURSIVE AdvanceRes(_, _)
AdvanceRes(c, n) ==
    IF n = 0 THEN [c |-> c, val |-> Ok(TRUE)]
    ELSE LET r == AdvanceSingle(c)
         IN  IF r.val.ok THEN AdvanceRes(r.c, n - 1) ELSE r

\* `let _ = self.advance(n)`: the cursor after it, the Result dropped.
Advance(c, n) == AdvanceRes(c, n).c

TestFor(c, s) ==
    \A i \in 1..Len(s) : i <= Len(c.bytes) /\ c.bytes[i] = s[i]

Consume(c, s) ==
    IF TestFor(c, s)
    THEN [c |-> Advance(c, Len(s)), val |-> TRUE]
    ELSE [c |-> c, val |-> FALSE]

\* check_ident_char(index): index is 0-based.
CheckIdentChar(c, index) ==
    index + 1 <= Len(c.bytes) /\ c.bytes[index + 1] \in IDENT_CHAR

\* A variant of check_ident that does not look at the byte after the word.
CheckIdentPrefix(c, ident) == TestFor(c, ident)

CheckIdent(c, ident) == TestFor(c, ident) /\ ~CheckIdentChar(c, Len(ident))

ConsumeIdent(c, ident) ==
    IF CheckIdent(c, ident)
    THEN [c |-> Advance(c, Len(ident)), val |-> TRUE]
    ELSE [c |-> c, val |-> FALSE]

\* eat_byte: [c, val], val the byte or Err(Eof).
EatByte(c) ==
    IF c.bytes = <<>>
    THEN [c |-> c, val |-> Error(c, "Eof")]
    ELSE [c |-> AdvanceSingle(c).c, val |-> Ok(c.bytes[1])]

\* Number of leading bytes of bs that satisfy the test (take_while(..).count()).
RECURSIVE CountWhileIn(_, _)
CountWhileIn(bs, allowed) ==
    IF bs = <<>> \/ bs[1] \notin allowed THEN 0
    ELSE 1 + CountWhileIn(Tail(bs), allowed)

NextBytesContainedIn(c, allowed) == CountWhileIn(c.bytes, allowed)

(***************************************************************************)
(* Whitespace and comments                                                 *)
(***************************************************************************)
\* The take_while closure of the block comment: the number of bytes of bs it
\* accepts, with its captured prev_char and level.
\* A variant of the scan that does not count the comments opened inside.
RECURSIVE BlockTakeWhileFlat(_, _, _)
BlockTakeWhileFlat(bs, prev_char, level) ==
    IF bs = <<>> THEN 0
    ELSE LET cur_char == bs[1]
         IN  IF prev_char = STAR /\ cur_char = SLASH
             THEN 0
             ELSE 1 + BlockTakeWhileFlat(Tail(bs), cur_char, level)

RECURSIVE BlockTakeWhile(_, _, _)
BlockTakeWhile(bs, prev_char, level) ==
    IF bs = <<>> THEN 0
    ELSE LET cur_char == bs[1]
         IN  IF prev_char = STAR /\ cur_char = SLASH
             THEN IF level = 0 THEN 0
                  ELSE 1 + BlockTakeWhile(Tail(bs), 0, level - 1)
             ELSE IF prev_char = SLASH /\ cur_char = STAR
                  THEN 1 + BlockTakeWhile(Tail(bs), 0, level + 1)
                  ELSE 1 + BlockTakeWhile(Tail(bs), cur_char, level)

\* A variant of skip_comment that reports a comment without moving over it.
SkipCommentInPlace(c) ==
    [c |-> c, val |-> TestFor(c, <<SLASH, SLASH>>) \/ TestFor(c, <<SLASH, STAR>>)]

SkipComment(c) ==
    LET Line(c1) ==
            [c |-> Advance(c1, CountWhileIn(c1.bytes, (0..255) \ {LF}) + 1), val |-> TRUE]
        Block(c1) ==
            [c |-> Advance(c1, BlockTakeWhile(c1.bytes, 0, 0) + 1), val |-> TRUE]
    IN  IF TestFor(c, <<SLASH, SLASH>>) THEN Line(Advance(c, 2))
        ELSE IF TestFor(c, <<SLASH, STAR>>) THEN Block(Advance(c, 2))
        ELSE [c |-> c, val |-> FALSE]

RECURSIVE SkipWs(_)
SkipWs(c) ==
    LET Comment(c1, r) == IF r.val THEN SkipWs(r.c) ELSE c1
        Spaces(c1) == Comment(c1, SkipComment(c1))
    IN  Spaces(Advance(c, CountWhileIn(c.bytes, WHITE_SPACE)))

\* Bytes::new
New(input) == SkipWs([bytes |-> input, line |-> 1, column |-> 1])

\* A variant of comma() that leaves what follows the comma alone.
CommaNoTrailingSkip(c) ==
    LET Consumed(c1, r) ==
            IF r.val THEN [c |-> r.c, val |-> TRUE]
            ELSE [c |-> c1, val |-> FALSE]
        Skipped(c1) == Consumed(c1, Consume(c1, <<COMMA>>))
    IN  Skipped(SkipWs(c))

Comma(c) ==
    LET Consumed(c1, r) ==
            IF r.val THEN [c |-> SkipWs(r.c), val |-> TRUE]
            ELSE [c |-> c1, val |-> FALSE]
        Skipped(c1) == Consumed(c1, Consume(c1, <<COMMA>>))
    IN  Skipped(SkipWs(c))

(***************************************************************************)
(* Literals: bool and numbers                                              *)
(***************************************************************************)
Bool(c) ==
    IF TestFor(c, Str(<<"t", "r", "u", "e">>))
    THEN [c |-> Consume(c, Str(<<"t", "r", "u", "e">>)).c, val |-> Ok(TRUE)]
    ELSE IF TestFor(c, Str(<<"f", "a", "l", "s", "e">>))
    THEN [c |-> Consume(c, Str(<<"f", "a", "l", "s", "e">>)).c, val |-> Ok(FALSE)]
    ELSE [c |-> c, val |-> Error(c, "ExpectedBoolean")]

\* An integer type T is [signed, bits]; the model has the 8 and 16 bit ones.
IntMax(T) == IF T.signed THEN 2 ^ (T.bits - 1) - 1 ELSE 2 ^ T.bits - 1
IntMin(T) == IF T.signed THEN 0 - 2 ^ (T.bits - 1) ELSE 0

\* <T as FromStr>::from_str on a run of decimal digits: the checked
\* accumulation acc * 10 + d, an Err as soon as it leaves T.
RECURSIVE FromStrDigits(_, _, _)
FromStrDigits(T, digits, acc) ==
    LET Checked(next) ==
            IF next > IntMax(T) THEN [ok |-> FALSE]
            ELSE FromStrDigits(T, Tail(digits), next)
    IN  IF digits = <<>> THEN [ok |-> TRUE, v |-> acc]
        ELSE Checked(acc * 10 + (digits[1] - Ord("0")))

FromStrInt(T, digits) ==
    IF digits = <<>> THEN [ok |-> FALSE] ELSE FromStrDigits(T, digits, 0)

UnsignedInteger(c, T) ==
    LET Converted(num_bytes, res) ==
            [c |-> Advance(c, num_bytes),
             val |-> IF res.ok THEN Ok(res.v) ELSE Error(c, "ExpectedInteger")]
        Scanned(num_bytes) ==
            IF num_bytes = 0 THEN [c |-> c, val |-> Error(c, "Eof")]
            ELSE Converted(num_bytes, FromStrInt(T, SubSeq(c.bytes, 1, num_bytes)))
    IN  Scanned(NextBytesContainedIn(c, DIGITS))

SignedInteger(c, T) ==
    LET Negated(r) == [c |-> r.c, val |-> IF r.val.ok THEN Ok(0 - r.val.v) ELSE r.val]
    IN  IF c.bytes = <<>> THEN [c |-> c, val |-> Error(c, "Eof")]
        ELSE IF Peek(c) = PLUS THEN UnsignedInteger(AdvanceSingle(c).c, T)
        ELSE IF Peek(c) = MINUS THEN Negated(UnsignedInteger(AdvanceSingle(c).c, T))
        ELSE UnsignedInteger(c, T)

\* <f64 as FromStr>::from_str on a run of FLOAT_CHARS:
\*   [+-]? (digit+ | digit+ "." digit* | digit* "." digit+) ([eE] [+-]? digit+)?
\* The value is kept as its decimal reading [neg, int, frac, exp].
StripSign(s) == IF s # <<>> /\ s[1] \in {PLUS, MINUS} THEN Tail(s) ELSE s

FromStrFloat(s) ==
    LET Value(neg, int, frac, exp_neg, exp) ==
            [ok |-> TRUE,
             v |-> [neg |-> neg, int |-> int, frac |-> frac,
                    exp |-> [neg |-> exp_neg, digits |-> exp]]]
        ExpDigits(neg, int, frac, exp_neg, d) ==
            IF d = <<>> \/ CountWhileIn(d, DIGITS) # Len(d) THEN [ok |-> FALSE]
            ELSE Value(neg, int, frac, exp_neg, d)
        Exp(neg, int, frac, e) ==
            IF e = <<>> THEN Value(neg, int, frac, FALSE, <<>>)
            ELSE IF e[1] \notin {Ord("e"), Ord("E")} THEN [ok |-> FALSE]
            ELSE ExpDigits(neg, int, frac, Len(e) > 1 /\ e[2] = MINUS, StripSign(Tail(e)))
        FracDigits(neg, int, f, nf) ==
            IF Len(int) + nf = 0 THEN [ok |-> FALSE]
            ELSE Exp(neg, int, SubSeq(f, 1, nf), SubSeq(f, nf + 1, Len(f)))
        Frac(neg, int, r) ==
            IF r # <<>> /\ r[1] = DOT
            THEN FracDigits(neg, int, Tail(r), CountWhileIn(Tail(r), DIGITS))
            ELSE IF int = <<>> THEN [ok |-> FALSE]
            ELSE Exp(neg, int, <<>>, r)
        IntPart(neg, body, ni) ==
            Frac(neg, SubSeq(body, 1, ni), SubSeq(body, ni + 1, Len(body)))
        Signed(neg, body) == IntPart(neg, body, CountWhileIn(body, DIGITS))
    IN  Signed(s # <<>> /\ s[1] = MINUS, StripSign(s))

Float(c) ==
    LET Converted(num_bytes, res) ==
            [c |-> Advance(c, num_bytes),
             val |-> IF res.ok THEN Ok(res.v) ELSE Error(c, "ExpectedFloat")]
        Scanned(num_bytes) ==
            Converted(num_bytes, FromStrFloat(SubSeq(c.bytes, 1, num_bytes)))
    IN  Scanned(NextBytesContainedIn(c, FLOAT_CHARS))

(***************************************************************************)
(* UTF-8 (std::str::from_utf8, char::encode_utf8)                          *)
(***************************************************************************)
IsCont(b) == b \in 128..191

\* from_utf8 succeeds on bs.
RECURSIVE IsUtf8(_)
IsUtf8(bs) ==
    IF bs = <<>> THEN TRUE
    ELSE LET b == bs[1]
             n == Len(bs)
         IN  IF b < 128 THEN IsUtf8(Tail(bs))
             ELSE IF b \in 194..223
             THEN n >= 2 /\ IsCont(bs[2]) /\ IsUtf8(SubSeq(bs, 3, n))
             ELSE IF b \in 224..239
             THEN /\ n >= 3
                  /\ IsCont(bs[2]) /\ IsCont(bs[3])
                  /\ (b = 224 => bs[2] >= 160)
                  /\ (b = 237 => bs[2] <= 159)
                  /\ IsUtf8(SubSeq(bs, 4, n))
             ELSE IF b \in 240..244
             THEN /\ n >= 4
                  /\ IsCont(bs[2]) /\ IsCont(bs[3]) /\ IsCont(bs[4])
                  /\ (b = 240 => bs[2] >= 144)
                  /\ (b = 244 => bs[2] <= 143)
                  /\ IsUtf8(SubSeq(bs, 5, n))
             ELSE FALSE

\* char::encode_utf8 of the code point cp.
EncodeUtf8(cp) ==
    IF cp < 128 THEN <<cp>>
    ELSE IF cp < 2048 THEN <<192 + (cp \div 64), 128 + (cp % 64)>>
    ELSE IF cp < 65536
    THEN <<224 + (cp \div 4096), 128 + ((cp \div 64) % 64), 128 + (cp % 64)>>
    ELSE <<240 + (cp \div 262144), 128 + ((cp \div 4096) % 64),
           128 + ((cp \div 64) % 64), 128 + (cp % 64)>>

\* The bytes of a str given as its chars.
RECURSIVE EncodeStr(_)
EncodeStr(chars) ==
    IF chars = <<>> THEN <<>> ELSE EncodeUtf8(chars[1]) \o EncodeStr(Tail(chars))

(***************************************************************************)
(* Strings                                                                 *)
(***************************************************************************)
Slice(s) == [tag |-> "Slice", s |-> s]
Allocated(s) == [tag |-> "Allocated", s |-> s]

\* The value of a hex digit, -1 for any other byte.
HexValue(b) ==
    IF b \in DIGITS THEN b - Ord("0")
    ELSE IF b \in Ord("a")..Ord("f") THEN b - Ord("a") + 10
    ELSE IF b \in Ord("A")..Ord("F") THEN b - Ord("A") + 10
    ELSE -1

\* One round of decode_hex_escape's loop: n * 16 + digit in u16.  wide is the
\* same sum without the width, so that an overflow of the u16 shows.
HexStep(n, digit) == [n |-> (n * 16 + digit) % 65536, wide |-> n * 16 + digit]

\* decode_hex_escape: [c, val, overflow]; k is the number of digits left.
\* (A LET operator applied to a value names that value once, as a `let` does.)
RECURSIVE DecodeHexLoop(_, _, _, _)
DecodeHexLoop(c, k, n, overflow) ==
    LET Eaten(e) ==
            IF ~e.val.ok THEN [c |-> e.c, val |-> e.val, overflow |-> overflow]
            ELSE IF HexValue(e.val.v) < 0
            THEN [c |-> e.c, val |-> Error(e.c, "InvalidEscape"), overflow |-> overflow]
            ELSE LET Stepped(st) ==
                         DecodeHexLoop(e.c, k - 1, st.n, overflow \/ st.wide # st.n)
                 IN  Stepped(HexStep(n, HexValue(e.val.v)))
    IN  IF k = 0 THEN [c |-> c, val |-> Ok(n), overflow |-> overflow]
        ELSE Eaten(EatByte(c))

DecodeHexEscape(c) == DecodeHexLoop(c, 4, 0, FALSE)

\* char::from_u32: a code point that is no surrogate and at most 0x10FFFF.
IsChar(n) == n >= 0 /\ n <= 1114111 /\ ~(n >= 55296 /\ n <= 57343)

\* The supplementary code point of a surrogate pair.
\* A variant of the pair's arithmetic without the offset of the supplementary planes.
CombineSurrogatesNoOffset(n1, n2) == (n1 - 55296) * 1024 + (n2 - 56320)

CombineSurrogates(n1, n2) == ((n1 - 55296) * 1024 + (n2 - 56320)) + 65536

\* The high-surrogate arm: n1 was decoded with the cursor now at c.
LowSurrogate(c, n1, overflow) ==
    LET Second(h2) ==
            IF ~h2.val.ok
            THEN [c |-> h2.c, val |-> h2.val, overflow |-> overflow \/ h2.overflow]
            ELSE IF h2.val.v < 56320 \/ h2.val.v > 57343
                    \/ ~IsChar(CombineSurrogates(n1, h2.val.v))
            THEN [c |-> h2.c, val |-> Error(h2.c, "InvalidEscape"),
                  overflow |-> overflow \/ h2.overflow]
            ELSE [c |-> h2.c, val |-> Ok(CombineSurrogates(n1, h2.val.v)),
                  overflow |-> overflow \/ h2.overflow]
        AfterU(b2) ==
            IF ~b2.val.ok THEN [c |-> b2.c, val |-> b2.val, overflow |-> overflow]
            ELSE IF b2.val.v # Ord("u")
            THEN [c |-> b2.c, val |-> Error(b2.c, "InvalidEscape"), overflow |-> overflow]
            ELSE Second(DecodeHexEscape(b2.c))
        AfterBackslash(b1) ==
            IF ~b1.val.ok THEN [c |-> b1.c, val |-> b1.val, overflow |-> overflow]
            ELSE IF b1.val.v # BACKSLASH
            THEN [c |-> b1.c, val |-> Error(b1.c, "InvalidEscape"), overflow |-> overflow]
            ELSE AfterU(EatByte(b1.c))
    IN  AfterBackslash(EatByte(c))

\* The `b'u'` arm of parse_str_escape, the cursor after the `u`:
\* [c, val, overflow], val the char or an Err.
UnicodeEscape(c) ==
    LET First(h1) ==
            IF ~h1.val.ok THEN h1
            ELSE IF h1.val.v >= 56320 /\ h1.val.v <= 57343
            THEN [c |-> h1.c, val |-> Error(h1.c, "InvalidEscape"),
                  overflow |-> h1.overflow]
            ELSE IF h1.val.v >= 55296 /\ h1.val.v <= 56319
            THEN LowSurrogate(h1.c, h1.val.v, h1.overflow)
            ELSE IF ~IsChar(h1.val.v)
            THEN [c |-> h1.c, val |-> Error(h1.c, "InvalidEscape"),
                  overflow |-> h1.overflow]
            ELSE h1
    IN  First(DecodeHexEscape(c))

\* parse_str_escape, the cursor after the backslash: [c, store, val, overflow].
ParseStrEscape(c, store) ==
    LET Push(e, x) ==
            [c |-> e.c, store |-> Append(store, x), val |-> Ok(TRUE), overflow |-> FALSE]
        Unicode(u) ==
            [c |-> u.c,
             store |-> IF u.val.ok THEN store \o EncodeUtf8(u.val.v) ELSE store,
             val |-> IF u.val.ok THEN Ok(TRUE) ELSE u.val,
             overflow |-> u.overflow]
        Eaten(e) ==
            IF ~e.val.ok
            THEN [c |-> e.c, store |-> store, val |-> e.val, overflow |-> FALSE]
            ELSE IF e.val.v = QUOTE THEN Push(e, QUOTE)
            ELSE IF e.val.v = BACKSLASH THEN Push(e, BACKSLASH)
            ELSE IF e.val.v = Ord("b") THEN Push(e, 8)
            ELSE IF e.val.v = Ord("f") THEN Push(e, 12)
            ELSE IF e.val.v = Ord("n") THEN Push(e, LF)
            ELSE IF e.val.v = Ord("r") THEN Push(e, Ord("\r"))
            ELSE IF e.val.v = Ord("t") THEN Push(e, Ord("\t"))
            ELSE IF e.val.v = Ord("u") THEN Unicode(UnicodeEscape(e.c))
            ELSE [c |-> e.c, store |-> store, val |-> Error(e.c, "InvalidEscape"),
                  overflow |-> FALSE]
    IN  Eaten(EatByte(c))

\* .find(|b| b == b'\\' || b == b'"'): the 0-based index, -1 for None.
FindEndOrEscape(bs) ==
    LET Found(n) == IF n = Len(bs) THEN -1 ELSE n
    IN  Found(CountWhileIn(bs, (0..255) \ {BACKSLASH, QUOTE}))

\* The loop of escaped_string: the cursor c has its next escape at index i,
\* s is the text decoded so far.
RECURSIVE EscapedLoop(_, _, _, _)
EscapedLoop(c, i, s, overflow) ==
    LET Closed(c3, s2, of) ==
            [c |-> c3,
             val |-> IF IsUtf8(s2) THEN Ok(Allocated(s2)) ELSE Error(c3, "Utf8Error"),
             overflow |-> of]
        Found(e, new_i, of) ==
            IF new_i = -1 THEN [c |-> e.c, val |-> Error(e.c, "Eof"), overflow |-> of]
            ELSE IF e.c.bytes[new_i + 1] = QUOTE
            THEN Closed(Advance(e.c, new_i + 1),
                        e.store \o SubSeq(e.c.bytes, 1, new_i), of)
            ELSE EscapedLoop(e.c, new_i, e.store \o SubSeq(e.c.bytes, 1, new_i), of)
        Escaped(e) ==
            IF ~e.val.ok THEN [c |-> e.c, val |-> e.val, overflow |-> overflow \/ e.overflow]
            ELSE Found(e, FindEndOrEscape(e.c.bytes), overflow \/ e.overflow)
    IN  Escaped(ParseStrEscape(Advance(c, i + 1), s))

\* escaped_string, the cursor after the opening quote.
EscapedString(c) ==
    LET Found(i) ==
            IF i = -1 THEN [c |-> c, val |-> Error(c, "Eof"), overflow |-> FALSE]
            ELSE IF c.bytes[i + 1] = QUOTE
            THEN IF IsUtf8(SubSeq(c.bytes, 1, i))
                 THEN [c |-> Advance(c, i + 1), val |-> Ok(Slice(SubSeq(c.bytes, 1, i))),
                       overflow |-> FALSE]
                 ELSE [c |-> c, val |-> Error(c, "Utf8Error"), overflow |-> FALSE]
            ELSE EscapedLoop(c, i, SubSeq(c.bytes, 1, i), FALSE)
    IN  Found(FindEndOrEscape(c.bytes))

\* .windows(size).position(|w| w == ending): the 0-based index, -1 for None.
\* A variant of the search that finds the last occurrence of the ending.
WindowsPositionLast(bs, ending) ==
    LET Final(hits) == IF hits = {} THEN -1 ELSE CHOOSE i \in hits : \A j \in hits : j <= i
    IN  Final({i \in 0..(Len(bs) - Len(ending)) :
                  SubSeq(bs, i + 1, i + Len(ending)) = ending})

WindowsPosition(bs, ending) ==
    LET First(hits) == IF hits = {} THEN -1 ELSE CHOOSE i \in hits : \A j \in hits : i <= j
    IN  First({i \in 0..(Len(bs) - Len(ending)) :
                  SubSeq(bs, i + 1, i + Len(ending)) = ending})

\* raw_string, the cursor after the `r`.
RawString(c) ==
    LET Body(q, num_hashes, i) ==
            IF i = -1
            THEN [c |-> q.c, val |-> Error(q.c, "ExpectedStringEnd"), overflow |-> FALSE]
            ELSE IF ~IsUtf8(SubSeq(q.c.bytes, 1, i))
            THEN [c |-> q.c, val |-> Error(q.c, "Utf8Error"), overflow |-> FALSE]
            ELSE [c |-> Advance(q.c, i + num_hashes + 1),
                  val |-> Ok(Slice(SubSeq(q.c.bytes, 1, i))), overflow |-> FALSE]
        Opened(q, num_hashes, hashes) ==
            IF ~q.val
            THEN [c |-> q.c, val |-> Error(q.c, "ExpectedString"), overflow |-> FALSE]
            ELSE Body(q, num_hashes, WindowsPosition(q.c.bytes, <<QUOTE>> \o hashes))
        Hashes(num_hashes) ==
            Opened(Consume(Advance(c, num_hashes), <<QUOTE>>), num_hashes,
                   SubSeq(c.bytes, 1, num_hashes))
    IN  Hashes(CountWhileIn(c.bytes, {HASH}))

\* string: [c, val, overflow]
String(c) ==
    IF TestFor(c, <<QUOTE>>) THEN EscapedString(Consume(c, <<QUOTE>>).c)
    ELSE IF TestFor(c, <<Ord("r")>>) THEN RawString(Consume(c, <<Ord("r")>>).c)
    ELSE [c |-> c, val |-> Error(c, "ExpectedString"), overflow |-> FALSE]

(***************************************************************************)
(* Scalars of the serializer                                               *)
(***************************************************************************)
\* The decimal digits of n >= 0.
RECURSIVE DecimalDigits(_)
DecimalDigits(n) ==
    IF n < 10 THEN <<Ord("0") + n>>
    ELSE Append(DecimalDigits(n \div 10), Ord("0") + (n % 10))

\* i64::to_string
ToStringI64(v) == IF v < 0 THEN <<MINUS>> \o DecimalDigits(0 - v) ELSE DecimalDigits(v)

serialize_i64(out, v) == out \o ToStringI64(v)

\* A variant of the loop that escapes the quote only.
RECURSIVE EscapeCharsQuoteOnly(_)
EscapeCharsQuoteOnly(chars) ==
    IF chars = <<>> THEN <<>>
    ELSE (IF chars[1] = QUOTE THEN <<BACKSLASH>> ELSE <<>>)
         \o EncodeUtf8(chars[1]) \o EscapeCharsQuoteOnly(Tail(chars))

\* The loop of serialize_str over v.chars().
RECURSIVE EscapeChars(_)
EscapeChars(chars) ==
    IF chars = <<>> THEN <<>>
    ELSE (IF chars[1] = BACKSLASH \/ chars[1] = QUOTE THEN <<BACKSLASH>> ELSE <<>>)
         \o EncodeUtf8(chars[1]) \o EscapeChars(Tail(chars))

serialize_str(out, chars) == out \o <<QUOTE>> \o EscapeChars(chars) \o <<QUOTE>>

serialize_bool(out, v) == out \o (IF v THEN Str(<<"t", "r", "u", "e">>)
                                       ELSE Str(<<"f", "a", "l", "s", "e">>))

serialize_none(out) == out \o Str(<<"N", "o", "n", "e">>)

(***************************************************************************)
(* The serializer.  s is [output, pretty, struct_names].                   *)
(***************************************************************************)
\* NEWLINE of the builds that are not for Windows.
NEWLINE == <<LF>>

Write(s, text) == [s EXCEPT !.output = @ \o text]

start_indent(s) ==
    IF s.pretty.is_some
    THEN [s EXCEPT !.pretty.indent = @ + 1, !.output = @ \o NEWLINE]
    ELSE s

indent(s) ==
    IF s.pretty.is_some
    THEN Write(s, Repeat(Ord(" "), s.pretty.indent * 4))
    ELSE s

end_indent(s) ==
    IF s.pretty.is_some
    THEN [s EXCEPT !.pretty.indent = @ - 1,
                   !.output = @ \o Repeat(Ord(" "), (s.pretty.indent - 1) * 4)]
    ELSE s

\* String::pop: the text without its last char, if it has one.
RECURSIVE Pop(_)
Pop(out) ==
    IF out = <<>> THEN out
    ELSE IF IsCont(out[Len(out)]) THEN Pop(SubSeq(out, 1, Len(out) - 1))
    ELSE SubSeq(out, 1, Len(out) - 1)

serialize_seq(s) == start_indent(Write(s, <<Ord("[")>>))

serialize_tuple(s) == Write(s, <<Ord("(")>>)

serialize_tuple_struct(s, name) ==
    serialize_tuple(IF s.struct_names THEN Write(s, name) ELSE s)

serialize_tuple_variant(s, variant) == start_indent(Write(Write(s, variant), <<Ord("(")>>))

serialize_map(s) == start_indent(Write(s, <<Ord("{")>>))

serialize_struct(s, name) ==
    start_indent(Write(IF s.struct_names THEN Write(s, name) ELSE s, <<Ord("{")>>))

serialize_struct_variant(s, variant) ==
    start_indent(Write(Write(s, variant), <<Ord("{")>>))

\* The container kinds and the begin call of each.
SeqKinds == {"seq"}
TupleKinds == {"tuple", "tuple_struct", "tuple_variant"}
MapKinds == {"map"}
StructKinds == {"struct", "struct_variant"}
Kinds == SeqKinds \cup TupleKinds \cup MapKinds \cup StructKinds

Begin(s, kind, name) ==
    CASE kind = "seq" -> serialize_seq(s)
      [] kind = "tuple" -> serialize_tuple(s)
      [] kind = "tuple_struct" -> serialize_tuple_struct(s, name)
      [] kind = "tuple_variant" -> serialize_tuple_variant(s, name)
      [] kind = "map" -> serialize_map(s)
      [] kind = "struct" -> serialize_struct(s, name)
      [] kind = "struct_variant" -> serialize_struct_variant(s, name)

\* What serialize_element / serialize_key / serialize_value / serialize_field
\* write before the value serializes itself; f is the open container.
BeforeValue(s, f, key) ==
    IF f.kind \in SeqKinds THEN indent(s)
    ELSE IF f.kind \in TupleKinds THEN s
    ELSE IF f.kind \in MapKinds
    THEN IF f.phase = "key" THEN indent(s)
         ELSE Write(s, <<Ord(":")>> \o (IF s.pretty.is_some THEN <<Ord(" ")>> ELSE <<>>))
    ELSE Write(indent(s), key \o <<Ord(":")>>
                          \o (IF s.pretty.is_some THEN <<Ord(" ")>> ELSE <<>>))

\* A variant of what follows a value that writes no separator.
AfterValueNoComma(s, f) == s

\* What they write after it.
AfterValue(s, f) ==
    IF f.kind \in TupleKinds
    THEN Write(s, <<COMMA>> \o (IF s.pretty.is_some THEN <<Ord(" ")>> ELSE <<>>))
    ELSE IF f.kind \in MapKinds /\ f.phase = "key" THEN s
    ELSE Write(s, <<COMMA>> \o (IF s.pretty.is_some THEN NEWLINE ELSE <<>>))

\* SerializeTuple::end, which the tuple struct and the tuple variant share.
TupleEnd(s) ==
    Write(IF s.pretty.is_some THEN [s EXCEPT !.output = Pop(Pop(@))] ELSE s, <<Ord(")")>>)

\* end() of the container kind.
End(s, kind) ==
    IF kind \in TupleKinds THEN TupleEnd(s)
    ELSE IF kind \in SeqKinds THEN Write(end_indent(s), <<Ord("]")>>)
    ELSE Write(end_indent(s), <<Ord("}")>>)

\* to_string's serializer.
ToStringSerializer ==
    [output |-> <<>>, pretty |-> [is_some |-> FALSE, indent |-> 0], struct_names |-> FALSE]

\* The scalars the model serializes.
Scalars ==
    {[t |-> "i64", i |-> 1], [t |-> "i64", i |-> 2], [t |-> "str", chars |-> <<Ord("a")>>],
     [t |-> "none"]}

SerializeScalar(out, x) ==
    CASE x.t = "i64" -> serialize_i64(out, x.i)
      [] x.t = "str" -> serialize_str(out, x.chars)
      [] x.t = "bool" -> serialize_bool(out, x.b)
      [] x.t = "none" -> serialize_none(out)

(***************************************************************************)
(* The cursor as a state machine                                           *)
(***************************************************************************)
\* Bounds of the model.
MaxOps == 2
IntEdge == 10
MaxStrLen == 3
MaxRawLen == 3
MaxHashes == 2
MaxCommentLen == 6
MaxSuffixLen == 2
MaxWsTokens == 2
MaxNumLen == 3

SeqsUpTo(S, n) == UNION {[1..k -> S] : k \in 0..n}

RECURSIVE Flatten(_)
Flatten(ss) == IF ss = <<>> THEN <<>> ELSE ss[1] \o Flatten(Tail(ss))

Cur == [bytes |-> bytes, line |-> line, column |-> column]

\* The Bytes literal of Bytes::new, before its skip_ws.
Fresh(input) == [bytes |-> input, line |-> 1, column |-> 1]

SerIdle ==
    /\ output = <<>>
    /\ pretty = [is_some |-> FALSE, indent |-> 0]
    /\ struct_names = FALSE
    /\ stack = <<>>
    /\ phase = "idle"
    /\ last = [kind |-> "none"]
    /\ entry = "none"

\* A run starts with the cursor c over the input described by s.
Start(s, c) ==
    /\ bytes = c.bytes
    /\ line = c.line
    /\ column = c.column
    /\ src = s
    /\ ret = [op |-> "new", arg |-> <<>>, before |-> Fresh(s.input), val |-> TRUE,
              overflow |-> FALSE]
    /\ nops = 0
    /\ pc = "idle"
    /\ SerIdle

\* The integer types of the model and the values tried at each.
SignedTypes == {[signed |-> TRUE, bits |-> 8], [signed |-> TRUE, bits |-> 16]}
UnsignedTypes == {[signed |-> FALSE, bits |-> 8], [signed |-> FALSE, bits |-> 16]}
IntTypes == SignedTypes \cup UnsignedTypes

IntValues(T) ==
    {v \in IntMin(T)..IntMax(T) :
        \/ v - IntMin(T) <= IntEdge
        \/ IntMax(T) - v <= IntEdge
        \/ (v >= 0 - IntEdge /\ v <= IntEdge)}

\* serialize_i64's text of a value of a signed type.
InitInt ==
    \E T \in SignedTypes : \E v \in IntValues(T) : \E tail \in {<<>>, <<COMMA>>} :
        LET input == serialize_i64(<<>>, v) \o tail
        IN  Start([family |-> "int", T |-> T, v |-> v, tail |-> tail, input |-> input],
                  New(input))

\* serialize_str's text of a string.
StrChars == {BACKSLASH, QUOTE, Ord("n"), Ord("u"), LF, 233, 128512}

InitStr ==
    \E s \in SeqsUpTo(StrChars, MaxStrLen) : \E tail \in {<<>>, <<COMMA>>, <<QUOTE>>} :
        LET input == serialize_str(<<>>, s) \o tail
        IN  Start([family |-> "str", s |-> s, tail |-> tail, input |-> input], New(input))

\* A raw string literal: r, n hashes, a quote, the body, a quote, n hashes.
RawBytes == {QUOTE, HASH, Ord("a"), BACKSLASH, 128}

RawLiteral(n, body) ==
    <<Ord("r")>> \o Repeat(HASH, n) \o <<QUOTE>> \o body \o <<QUOTE>> \o Repeat(HASH, n)

InitRaw ==
    \E n \in 0..MaxHashes : \E body \in SeqsUpTo(RawBytes, MaxRawLen) :
    \E tail \in {<<>>, <<COMMA>>, <<HASH>>} :
        LET input == RawLiteral(n, body) \o tail
        IN  Start([family |-> "raw", n |-> n, body |-> body, tail |-> tail,
                   input |-> input], New(input))

\* The cursor skip_ws hands to skip_comment: at a `/*`.
CommentBytes == {SLASH, STAR, Ord("a")}

InitComment ==
    \E body \in SeqsUpTo(CommentBytes, MaxCommentLen) :
        LET input == <<SLASH, STAR>> \o body
        IN  Start([family |-> "comment", body |-> body, input |-> input], Fresh(input))

\* A word that is, or is nearly, a boolean, and what follows it.
BoolWords ==
    {Str(<<"t", "r", "u", "e">>), Str(<<"f", "a", "l", "s", "e">>), Str(<<"t", "r", "u">>),
     Str(<<"T", "r", "u", "e">>), Str(<<"f", "a", "l", "s">>)}
SuffixBytes == {Ord("_"), Ord("y"), Ord("1"), COMMA, Ord(" ")}

InitBool ==
    \E word \in BoolWords : \E suffix \in SeqsUpTo(SuffixBytes, MaxSuffixLen) :
        LET input == word \o suffix
        IN  Start([family |-> "bool", word |-> word, suffix |-> suffix, input |-> input],
                  New(input))

\* An element, then whitespace and comments, perhaps a comma, whitespace and
\* comments again, and the closer of the container.
WsTokens ==
    {<<Ord(" ")>>, <<LF>>, <<Ord("\t")>>,
     Str(<<"/", "/", "x", "\n">>), Str(<<"/", "*", ",", "*", "/">>),
     Str(<<"/", "*", "/", "*", "]", "*", "/", "*", "/">>)}
Closers == {Ord("]"), Ord(")"), Ord("}")}

InitSep ==
    \E pre \in SeqsUpTo(WsTokens, MaxWsTokens) : \E post \in SeqsUpTo(WsTokens, 1) :
    \E has_comma \in BOOLEAN : \E closer \in Closers :
        LET elem == Str(<<"t", "r", "u", "e">>)
            input == elem \o Flatten(pre) \o (IF has_comma THEN <<COMMA>> ELSE <<>>)
                     \o Flatten(post) \o <<closer>>
        IN  Start([family |-> "sep", elem |-> elem, pre |-> pre, post |-> post,
                   has_comma |-> has_comma, closer |-> closer, input |-> input],
                  New(input))

\* An escaped string that opens with a \u escape of the code unit unit1; then
\* either a second \u escape (of unit2) or something else, and the rest.
EscapeUnits == {65, 233, 55295, 55296, 55357, 56319, 56320, 56832, 57343, 57344, 65535}

HexDigit(d, upper) ==
    IF d < 10 THEN Ord("0") + d
    ELSE IF upper THEN Ord("A") + (d - 10) ELSE Ord("a") + (d - 10)

Hex4(n, upper) ==
    <<HexDigit(n \div 4096, upper), HexDigit((n \div 256) % 16, upper),
      HexDigit((n \div 16) % 16, upper), HexDigit(n % 16, upper)>>

EscapeU(n, upper) == <<BACKSLASH, Ord("u")>> \o Hex4(n, upper)

\* What may follow the first escape when it is not a whole second \u escape.
BrokenFollows ==
    {<<>>, <<QUOTE>>, <<Ord("x"), QUOTE>>, <<BACKSLASH, Ord("n"), QUOTE>>, <<BACKSLASH>>,
     <<BACKSLASH, Ord("u")>>, Str(<<"\\", "u", "D", "C">>),
     Str(<<"\\", "u", "D", "C", "0", "\"">>), Str(<<"\\", "u", "D", "C", "G", "0", "\"">>),
     Str(<<"u", "D", "C", "0", "0", "\"">>), Str(<<"\\", "x", "D", "C", "0", "0", "\"">>)}

InitEscape ==
    \E unit1 \in EscapeUnits : \E upper \in BOOLEAN :
        \/ \E unit2 \in EscapeUnits : \E rest \in {<<>>, <<QUOTE>>, <<Ord("a"), QUOTE>>} :
            LET follow == EscapeU(unit2, upper) \o rest
                input == <<QUOTE>> \o EscapeU(unit1, upper) \o follow
            IN  Start([family |-> "escape", unit1 |-> unit1, unit2 |-> unit2,
                       follow |-> follow, rest |-> rest, input |-> input], New(input))
        \/ \E follow \in BrokenFollows :
            LET input == <<QUOTE>> \o EscapeU(unit1, upper) \o follow
            IN  Start([family |-> "escape", unit1 |-> unit1, unit2 |-> -1,
                       follow |-> follow, rest |-> follow, input |-> input], New(input))

\* Text for the numeric scanners.
NumBytes == {Ord("1"), Ord("9"), MINUS, PLUS, DOT, Ord("e"), Ord("a")}

InitNum ==
    \E input \in SeqsUpTo(NumBytes, MaxNumLen) :
        Start([family |-> "num", input |-> input], New(input))

\* A cursor operation returns: the cursor moves to r.c, the history records the call.
Return(op, arg, r, overflow) ==
    /\ bytes' = r.c.bytes
    /\ line' = r.c.line
    /\ column' = r.c.column
    /\ ret' = [op |-> op, arg |-> arg, before |-> Cur, val |-> r.val, overflow |-> overflow]
    /\ nops' = nops + 1
    /\ UNCHANGED <<src, output, pretty, struct_names, stack, phase, last, entry, pc>>

DoBool ==
    /\ nops < MaxOps
    /\ Return("bool", <<>>, Bool(Cur), FALSE)

DoComma ==
    /\ nops < MaxOps
    /\ Return("comma", <<>>, Comma(Cur), FALSE)

DoSignedInteger ==
    /\ nops < MaxOps
    /\ \E T \in SignedTypes : Return("signed_integer", T, SignedInteger(Cur, T), FALSE)

DoUnsignedInteger ==
    /\ nops < MaxOps
    /\ \E T \in IntTypes : Return("unsigned_integer", T, UnsignedInteger(Cur, T), FALSE)

DoFloat ==
    /\ nops < MaxOps
    /\ Return("float", <<>>, Float(Cur), FALSE)

DoString ==
    /\ nops < MaxOps
    /\ LET Returned(r) == Return("string", <<>>, r, r.overflow)
       IN  Returned(String(Cur))

DoSkipWs ==
    /\ nops < MaxOps
    /\ Return("skip_ws", <<>>, [c |-> SkipWs(Cur), val |-> TRUE], FALSE)

DoSkipComment ==
    /\ nops < MaxOps
    /\ Return("skip_comment", <<>>, SkipComment(Cur), FALSE)

Next ==
    \/ DoBool
    \/ DoComma
    \/ DoSignedInteger
    \/ DoUnsignedInteger
    \/ DoFloat
    \/ DoString
    \/ DoSkipWs
    \/ DoSkipComment

SpecInt == InitInt /\ [][Next]_vars
SpecStr == InitStr /\ [][Next]_vars
SpecRaw == InitRaw /\ [][Next]_vars
SpecComment == InitComment /\ [][Next]_vars
SpecBool == InitBool /\ [][Next]_vars
SpecSep == InitSep /\ [][Next]_vars
SpecEscape == InitEscape /\ [][Next]_vars
SpecNum == InitNum /\ [][Next]_vars

(***************************************************************************)
(* The cursor over plain text: advance, consume and the identifier tests   *)
(***************************************************************************)
\* Bounds of the model.
MaxTextLen == 3
MaxAdvance == 2

\* Text of newlines, comment delimiters, a letter and a digit.
TextBytes == {LF, SLASH, STAR, Ord("a"), Ord("1")}

\* The literals and identifiers the callers ask for.
Literals == {<<Ord("a")>>, <<Ord("a"), Ord("1")>>, <<Ord("a"), LF>>, <<SLASH, STAR>>}

InitText ==
    \E input \in SeqsUpTo(TextBytes, MaxTextLen) :
        Start([family |-> "text", input |-> input], New(input))

DoAdvance ==
    /\ nops < MaxOps
    /\ \E n \in 0..MaxAdvance : Return("advance", n, AdvanceRes(Cur, n), FALSE)

DoConsume ==
    /\ nops < MaxOps
    /\ \E s \in Literals : Return("consume", s, Consume(Cur, s), FALSE)

DoCheckIdent ==
    /\ nops < MaxOps
    /\ \E ident \in Literals :
          Return("check_ident", ident, [c |-> Cur, val |-> CheckIdent(Cur, ident)], FALSE)

DoConsumeIdent ==
    /\ nops < MaxOps
    /\ \E ident \in Literals : Return("consume_ident", ident, ConsumeIdent(Cur, ident), FALSE)

TextNext ==
    \/ DoAdvance
    \/ DoConsume
    \/ DoCheckIdent
    \/ DoConsumeIdent
    \/ DoBool
    \/ DoComma
    \/ DoSignedInteger
    \/ DoUnsignedInteger
    \/ DoFloat
    \/ DoString
    \/ DoSkipWs
    \/ DoSkipComment

SpecText == InitText /\ [][TextNext]_vars

(***************************************************************************)
(* skip_ws step by step, as Bytes::new runs it on the whole input          *)
(***************************************************************************)
\* Bound of the model.
MaxWsLen == 4

\* Whitespace, comment delimiters and a letter.
WsBytes == {LF, Ord(" "), SLASH, STAR, Ord("a")}

\* Bytes::new has built the cursor and enters skip_ws.
InitWs ==
    /\ \E input \in SeqsUpTo(WsBytes, MaxWsLen) :
          /\ bytes = input
          /\ src = [family |-> "ws", input |-> input]
    /\ line = 1
    /\ column = 1
    /\ ret = [op |-> "new", arg |-> <<>>, before |-> Fresh(bytes), val |-> TRUE,
              overflow |-> FALSE]
    /\ nops = 0
    /\ pc = "spaces"
    /\ SerIdle

Moved(c, to) ==
    /\ bytes' = c.bytes
    /\ line' = c.line
    /\ column' = c.column
    /\ pc' = to
    /\ UNCHANGED <<src, ret, nops, output, pretty, struct_names, stack, phase, last, entry>>

\* One turn of the while loop: a whitespace byte is next.
WsAdvance ==
    /\ pc = "spaces"
    /\ Peek(Cur) \in WHITE_SPACE
    /\ Moved(AdvanceSingle(Cur).c, "spaces")

\* The loop is over: skip_comment runs, and after a comment skip_ws enters
\* itself again.
WsSkipComment ==
    /\ pc = "spaces"
    /\ Peek(Cur) \notin WHITE_SPACE
    /\ LET After(r) == Moved(r.c, IF r.val THEN "spaces" ELSE "done")
       IN  After(SkipComment(Cur))

WsNext ==
    \/ WsAdvance
    \/ WsSkipComment

\* The code runs its next statement whenever there is one.
SpecWs == InitWs /\ [][WsNext]_vars /\ WF_vars(WsNext)

(***************************************************************************)
(* The serializer as a state machine: the calls a Serialize impl makes     *)
(***************************************************************************)
\* Bounds of the model.
MaxCalls == 5
MaxDepth == 2
MaxItems == 3

Ser == [output |-> output, pretty |-> pretty, struct_names |-> struct_names]

Top == stack[Len(stack)]

\* The names a derived Serialize impl passes: of the type, of the variant and
\* of the i-th field (x, y, z, a, ...).
TypeName == Str(<<"P", "o", "i", "n", "t">>)
VariantName == Str(<<"V">>)
FieldName(i) == <<Ord("a") + ((i + 22) % 26)>>

NameOf(kind) ==
    IF kind \in {"tuple_struct", "struct"} THEN TypeName
    ELSE IF kind \in {"tuple_variant", "struct_variant"} THEN VariantName
    ELSE <<>>

\* The serializer is built by to_string, or with any other settings (the
\* pretty module builds it with pretty = Some(Pretty { indent: 0 })).
InitSer ==
    /\ \E e \in {"to_string", "other"} : \E p, n \in BOOLEAN :
          LET s == IF e = "to_string" THEN ToStringSerializer
                   ELSE [output |-> <<>>, pretty |-> [is_some |-> p, indent |-> 0],
                         struct_names |-> n]
          IN  /\ entry = e
              /\ output = s.output
              /\ pretty = s.pretty
              /\ struct_names = s.struct_names
    /\ stack = <<>>
    /\ phase = "value"
    /\ last = [kind |-> "none"]
    /\ bytes = <<>> /\ line = 1 /\ column = 1
    /\ src = [family |-> "none"]
    /\ ret = [op |-> "none"]
    /\ nops = 0
    /\ pc = "idle"

\* A value may be serialized now: the caller's, or the next of the open container.
ValueDue ==
    /\ nops < MaxCalls
    /\ phase = "value"
    /\ stack # <<>> => (Len(Top.items) < MaxItems \/ Top.phase = "value")

\* The serializer once the open container, if any, has written what precedes
\* the value.
Before(s) ==
    IF stack = <<>> THEN s ELSE BeforeValue(s, Top, FieldName(Len(Top.items) + 1))

\* The stack once the value starts at the end of out: the open container notes
\* where, and a struct notes the field's name.
Marked(out) ==
    IF stack = <<>> THEN stack
    ELSE [stack EXCEPT ![Len(stack)] =
             [Top EXCEPT !.mark = Len(out),
                         !.key = IF Top.kind \in StructKinds
                                 THEN FieldName(Len(Top.items) + 1) ELSE @]]

\* A value is complete: the container stk ends with writes what follows it.
Completed(s, stk) ==
    IF stk = <<>> THEN [s |-> s, stack |-> stk, phase |-> "done"]
    ELSE LET f == stk[Len(stk)]
             text == SubSeq(s.output, f.mark + 1, Len(s.output))
         IN  [s |-> AfterValue(s, f),
              stack |-> [stk EXCEPT ![Len(stk)] =
                  IF f.kind \in MapKinds /\ f.phase = "key"
                  THEN [f EXCEPT !.key = text, !.phase = "value"]
                  ELSE [f EXCEPT !.items = Append(@, [key |-> f.key, value |-> text]),
                                 !.key = <<>>,
                                 !.phase = IF f.kind \in MapKinds THEN "key" ELSE "elem"]],
              phase |-> "value"]

Commit(c, l) ==
    /\ output' = c.s.output
    /\ pretty' = c.s.pretty
    /\ struct_names' = c.s.struct_names
    /\ stack' = c.stack
    /\ phase' = c.phase
    /\ last' = l
    /\ nops' = nops + 1
    /\ UNCHANGED <<bytes, line, column, src, ret, entry, pc>>

\* serialize_i64, serialize_str, serialize_none: a scalar, alone or as the
\* element, key, value or field of the open container.
SerializeValue ==
    /\ ValueDue
    /\ \E x \in Scalars :
          LET Written(s1) ==
                  Commit(Completed([s1 EXCEPT !.output = SerializeScalar(@, x)],
                                   Marked(s1.output)), last)
          IN  Written(Before(Ser))

\* serialize_seq, serialize_tuple, ...: a container begins.
SerializeBegin ==
    /\ ValueDue
    /\ Len(stack) < MaxDepth
    /\ stack # <<>> => Top.phase # "key"
    /\ \E kind \in Kinds :
          LET Opened(s1) ==
                  Commit([s |-> Begin(s1, kind, NameOf(kind)),
                          stack |-> Append(Marked(s1.output),
                                           [kind |-> kind,
                                            phase |-> IF kind \in MapKinds THEN "key" ELSE "elem",
                                            pre |-> s1.output,
                                            name |-> NameOf(kind),
                                            items |-> <<>>,
                                            key |-> <<>>,
                                            mark |-> 0,
                                            indent |-> s1.pretty.indent]),
                          phase |-> "value"], last)
          IN  Opened(Before(Ser))

\* end() of the open container.
SerializeEnd ==
    /\ nops < MaxCalls
    /\ phase = "value"
    /\ stack # <<>>
    /\ Top.phase # "value"
    /\ LET Closed(s1) ==
               Commit(Completed(s1, SubSeq(stack, 1, Len(stack) - 1)),
                      [kind |-> Top.kind, pre |-> Top.pre, name |-> Top.name,
                       items |-> Top.items, out |-> s1.output,
                       indent_before |-> Top.indent, indent_after |-> s1.pretty.indent])
       IN  Closed(End(Ser, Top.kind))

SerNext ==
    \/ SerializeValue
    \/ SerializeBegin
    \/ SerializeEnd

SpecSer == InitSer /\ [][SerNext]_vars

(***************************************************************************)
(* Claims                                                                  *)
(***************************************************************************)
\* The operation `op` has just run on the whole input of the run.
FirstCall(op) == nops = 1 /\ ret.op = op

\* C1: for every value v of a signed width W (the minimum included),
\* signed_integer at width W on the text serialize_i64 emits for v succeeds
\* and returns v.
C1_IntegerRoundTrip ==
    (src.family = "int" /\ FirstCall("signed_integer") /\ ret.arg = src.T)
        => (ret.val.ok /\ ret.val.v = src.v)

\* C2: for every string s, string() on the text serialize_str emits for s
\* succeeds, returns exactly s and leaves the cursor on the byte right after
\* the closing quote.
C2_StringRoundTrip ==
    (src.family = "str" /\ FirstCall("string"))
        => (ret.val.ok /\ ret.val.v.s = EncodeStr(src.s) /\ bytes = src.tail)

\* A string with a backslash before a letter, a quote and a raw control
\* character has made the round trip, with a quote right after the literal.
C2_Witness ==
    /\ src.family = "str" /\ FirstCall("string")
    /\ src.s = <<BACKSLASH, Ord("n"), LF>>
    /\ src.tail = <<QUOTE>>
    /\ ret.val.ok /\ ret.val.v.tag = "Allocated"
    /\ bytes = <<QUOTE>>

\* b has a quote followed by exactly n hashes (and then no further hash).
HasQuoteThenExactly(b, n) ==
    \E i \in 1..Len(b) :
        /\ b[i] = QUOTE
        /\ i + n <= Len(b)
        /\ \A j \in (i + 1)..(i + n) : b[j] = HASH
        /\ (i + n + 1 <= Len(b) => b[i + n + 1] # HASH)

\* b has a quote followed by n hashes (and then anything).
HasQuoteThenAtLeast(b, n) ==
    \E i \in 1..Len(b) :
        /\ b[i] = QUOTE
        /\ i + n <= Len(b)
        /\ \A j \in (i + 1)..(i + n) : b[j] = HASH

\* C3 as stated: for every n and every body b without a quote followed by
\* exactly n hashes, string() on r, n hashes, quote, b, quote, n hashes returns
\* b unchanged as a borrowed slice and consumes the whole literal.
C3_RawStringExactly ==
    (src.family = "raw" /\ FirstCall("string") /\ ~HasQuoteThenExactly(src.body, src.n))
        => (ret.val.ok /\ ret.val.v = Slice(src.body) /\ bytes = src.tail)

\* C3 as amended: for every n and every body b that is valid UTF-8 and has no
\* quote followed by n or more hashes, string() returns b unchanged as a
\* borrowed slice and consumes the whole literal; and whenever string()
\* succeeds on a raw literal the body it returns ends at the first quote that
\* n hashes follow.
C3_RawStringFaithful ==
    (src.family = "raw" /\ FirstCall("string"))
        => /\ (IsUtf8(src.body) /\ ~HasQuoteThenAtLeast(src.body, src.n))
                => (ret.val.ok /\ ret.val.v = Slice(src.body) /\ bytes = src.tail)
           /\ ret.val.ok
                => LET s == ret.val.v.s
                       after == SubSeq(src.input, src.n + 3 + Len(s), Len(src.input))
                   IN  /\ ret.val.v.tag = "Slice"
                       /\ ~HasQuoteThenAtLeast(s, src.n)
                       /\ after = <<QUOTE>> \o Repeat(HASH, src.n) \o bytes
                       /\ s = SubSeq(src.input, src.n + 3, src.n + 2 + Len(s))

\* A raw string with one hash whose body holds a lone quote and a backslash
\* has been parsed back, a hash following the literal.
C3_Witness ==
    /\ src.family = "raw" /\ FirstCall("string")
    /\ src.n = 1
    /\ src.body = <<QUOTE, BACKSLASH, Ord("a")>>
    /\ src.tail = <<HASH>>
    /\ ret.val.ok /\ ret.val.v.s = src.body
    /\ bytes = <<HASH>>

\* The end of a balanced block comment, by depth: the index in bs of the `/`
\* of the `*/` that closes the `/*` at i, 0 if there is none.  Every `/*`
\* opens, every `*/` closes, and a delimiter's two bytes belong to it alone.
RECURSIVE BalancedEnd(_, _, _)
BalancedEnd(bs, i, depth) ==
    IF i + 1 > Len(bs) THEN 0
    ELSE IF bs[i] = SLASH /\ bs[i + 1] = STAR THEN BalancedEnd(bs, i + 2, depth + 1)
    ELSE IF bs[i] = STAR /\ bs[i + 1] = SLASH
    THEN IF depth = 1 THEN i + 1 ELSE BalancedEnd(bs, i + 2, depth - 1)
    ELSE BalancedEnd(bs, i + 1, depth)

\* C4: with the cursor at `/*`, skip_comment consumes exactly through the
\* `*/` that brings the nesting depth back to zero and leaves the cursor on
\* the byte right after it.
C4_BlockCommentBalanced ==
    (src.family = "comment" /\ FirstCall("skip_comment")
     /\ BalancedEnd(src.input, 1, 0) > 0)
        => /\ ret.val = TRUE
           /\ bytes = SubSeq(src.input, BalancedEnd(src.input, 1, 0) + 1, Len(src.input))

\* A comment that nests a comment has been skipped as a whole.
C4_Witness ==
    /\ src.family = "comment" /\ FirstCall("skip_comment")
    /\ src.body = <<SLASH, STAR, STAR, SLASH, STAR, SLASH>>
    /\ bytes = <<>>
    /\ column = 9

\* C5: bool() succeeds only when the bytes at the cursor are `true` or
\* `false` and the next byte is no identifier character; otherwise it
\* fails with ExpectedBoolean.
C5_BoolIsWholeIdentifier ==
    (src.family = "bool" /\ FirstCall("bool"))
        => LET keyword == src.word \in {Str(<<"t", "r", "u", "e">>),
                                        Str(<<"f", "a", "l", "s", "e">>)}
               bounded == src.suffix = <<>> \/ src.suffix[1] \notin IDENT_CHAR
           IN  IF keyword /\ bounded
               THEN ret.val.ok /\ ret.val.v = (src.word = Str(<<"t", "r", "u", "e">>))
               ELSE ~ret.val.ok /\ ret.val.kind = "ExpectedBoolean"

\* comma() has been called right after the element of a "sep" input.
CommaAfterElement ==
    /\ src.family = "sep"
    /\ nops = 2 /\ ret.op = "comma"
    /\ ret.before.bytes = SubSeq(src.input, Len(src.elem) + 1, Len(src.input))

\* C6: after an element that a container closer follows, comma() consumes the
\* whitespace and comments, at most one `,`, and the whitespace and comments
\* after it; it returns true iff a `,` was consumed and leaves the cursor on
\* the closer, with or without the trailing comma.
C6_CommaStopsAtCloser ==
    CommaAfterElement => (ret.val = src.has_comma /\ bytes = <<src.closer>>)

\* A trailing comma with comments and whitespace on both sides has been
\* consumed up to the closer.
C6_Witness ==
    /\ CommaAfterElement
    /\ src.has_comma
    /\ Len(src.pre) = 2 /\ src.pre[1] = Str(<<"/", "*", ",", "*", "/">>)
    /\ src.post = <<Str(<<"/", "/", "x", "\n">>)>>
    /\ ret.val = TRUE
    /\ bytes = <<Ord("]")>>

HighSurrogates == 55296..56319
LowSurrogates == 56320..57343

\* The run is a string() over an "escape" input.
EscapeParsed == src.family = "escape" /\ FirstCall("string")

\* A surrogate pair that a closing quote follows decodes to its code point.
PairDecodes ==
    (src.unit1 \in HighSurrogates /\ src.unit2 \in LowSurrogates /\ src.rest # <<>>)
        => /\ ret.val.ok
           /\ ret.val.v.s = EncodeUtf8(65536 + (src.unit1 - 55296) * 1024 + (src.unit2 - 56320))
                            \o SubSeq(src.rest, 1, Len(src.rest) - 1)
           /\ bytes = <<>>

\* The input ends where the `\uLLLL` after a high surrogate could still follow.
EndsInsideLowEscape ==
    /\ Len(src.follow) < 6
    /\ \A i \in 1..Len(src.follow) :
          src.follow[i] \in (IF i = 1 THEN {BACKSLASH}
                             ELSE IF i = 2 THEN {Ord("u")}
                             ELSE {b \in 0..127 : HexValue(b) >= 0})

\* C7 as stated: a surrogate pair decodes to its code point; a low surrogate
\* first, and a high surrogate without a valid \u low surrogate right after
\* it, fail with InvalidEscape; the accumulation never overflows 16 bits.
C7_SurrogatesInvalidEscape ==
    EscapeParsed
        => /\ PairDecodes
           /\ src.unit1 \in LowSurrogates
                => (~ret.val.ok /\ ret.val.kind = "InvalidEscape")
           /\ (src.unit1 \in HighSurrogates /\ src.unit2 \notin LowSurrogates)
                => (~ret.val.ok /\ ret.val.kind = "InvalidEscape")
           /\ ~ret.overflow

\* C7 as amended: as stated, except that a high surrogate after which the
\* input ends before the `\uLLLL` is complete fails with Eof.
C7_SurrogatesInvalidEscapeOrEof ==
    EscapeParsed
        => /\ PairDecodes
           /\ src.unit1 \in LowSurrogates
                => (~ret.val.ok /\ ret.val.kind = "InvalidEscape")
           /\ (src.unit1 \in HighSurrogates /\ src.unit2 \notin LowSurrogates)
                => /\ ~ret.val.ok
                   /\ ret.val.kind = (IF EndsInsideLowEscape THEN "Eof" ELSE "InvalidEscape")
           /\ ~ret.overflow

\* "😀" has been parsed to the four UTF-8 bytes of U+1F600.
C7_Witness ==
    /\ EscapeParsed
    /\ src.unit1 = 55357 /\ src.unit2 = 56832 /\ src.rest = <<QUOTE>>
    /\ ret.val.ok /\ ret.val.v.s = <<240, 159, 152, 128>>

\* C10: an integer scan that fails while input bytes remain reports
\* ExpectedInteger, a float scan that fails reports ExpectedFloat, and Eof is
\* reported only when no input byte remains.
C10_NumericErrorKinds ==
    (nops >= 1 /\ ret.op \in {"signed_integer", "unsigned_integer", "float"} /\ ~ret.val.ok)
        => /\ ret.op = "float" => ret.val.kind = "ExpectedFloat"
           /\ (ret.op # "float" /\ bytes # <<>>) => ret.val.kind = "ExpectedInteger"
           /\ ret.val.kind = "Eof" => bytes = <<>>

\* The texts of the items, with sep between each two.
RECURSIVE JoinedBy(_, _)
JoinedBy(items, sep) ==
    IF items = <<>> THEN <<>>
    ELSE IF Len(items) = 1 THEN items[1].value
    ELSE items[1].value \o sep \o JoinedBy(Tail(items), sep)

\* The texts of the items, each after its key and a colon if keyed, and each
\* followed by a comma.
RECURSIVE EachWithComma(_, _)
EachWithComma(items, keyed) ==
    IF items = <<>> THEN <<>>
    ELSE (IF keyed THEN items[1].key \o <<Ord(":")>> ELSE <<>>)
         \o items[1].value \o <<COMMA>> \o EachWithComma(Tail(items), keyed)

\* The type name a struct or tuple struct writes.
WrittenName ==
    IF last.kind \in {"struct_variant", "tuple_variant"} THEN last.name
    ELSE IF last.kind \in {"struct", "tuple_struct"} /\ struct_names THEN last.name
    ELSE <<>>

\* C8: with pretty printing on, a tuple or tuple struct of any arity has
\* written `(`, its elements joined by `, ` and `)` after whatever the output
\* held before it (and after its name, when struct names are written); the
\* end() has removed the separator after the last element and nothing else.
C8_PrettyTupleOnOneLine ==
    (pretty.is_some /\ last.kind \in {"tuple", "tuple_struct"})
        => last.out = last.pre \o WrittenName \o <<Ord("(")>>
                      \o JoinedBy(last.items, <<COMMA, Ord(" ")>>) \o <<Ord(")")>>

\* C9: without pretty printing, a sequence, map, struct or struct variant has
\* written its opener, each element, key:value or field:value followed by a
\* comma, and its closer, with nothing else in between; the name of a struct
\* precedes `{` iff struct_names is set; and the serializer of to_string has
\* neither pretty printing nor struct names.
C9_CompactFormatting ==
    /\ entry = "to_string" => (~pretty.is_some /\ ~struct_names)
    /\ (~pretty.is_some /\ last.kind \in SeqKinds \cup MapKinds \cup StructKinds)
           => last.out = last.pre \o WrittenName
                         \o (IF last.kind \in SeqKinds THEN <<Ord("[")>> ELSE <<Ord("{")>>)
                         \o EachWithComma(last.items, last.kind \notin SeqKinds)
                         \o (IF last.kind \in SeqKinds THEN <<Ord("]")>> ELSE <<Ord("}")>>)

\* to_string has serialized Point { x: 1, y: 2 } as `{x:1,y:2,}`.
C9_Witness ==
    /\ entry = "to_string" /\ phase = "done"
    /\ last.kind = "struct" /\ last.name = TypeName
    /\ Len(last.items) = 2
    /\ output = Str(<<"{", "x", ":", "1", ",", "y", ":", "2", ",", "}">>)

\* The container kinds whose begin call runs start_indent.
IndentingKinds == SeqKinds \cup MapKinds \cup StructKinds \cup {"tuple_variant"}

\* C11: with pretty printing on, a container whose begin incremented the
\* indent has the indent of before its begin once its end has run; the indent
\* is 0 once the top-level value is complete; and it is never below 0.
C11_IndentBalanced ==
    pretty.is_some
        => /\ last.kind \in IndentingKinds => last.indent_after = last.indent_before
           /\ phase = "done" => pretty.indent = 0
           /\ pretty.indent >= 0

\* The operations that return a Result.
ResultOps == {"advance", "bool", "signed_integer", "unsigned_integer", "float", "string"}

\* The part of the input that has been consumed.
ConsumedBytes == SubSeq(src.input, 1, Len(src.input) - Len(bytes))

\* The position of the byte after the text bs, counted from 1:1.
LineAfter(bs) == 1 + Cardinality({i \in 1..Len(bs) : bs[i] = LF})
ColumnAfter(bs) ==
    LET Since(k) == 1 + Len(bs) - k
        LastOf(S) == IF S = {} THEN 0 ELSE CHOOSE i \in S : \A j \in S : j <= i
    IN  Since(LastOf({i \in 1..Len(bs) : bs[i] = LF}))

\* The position l1:c1 is not before l2:c2.
NotBefore(l1, c1, l2, c2) == l1 > l2 \/ (l1 = l2 /\ c1 >= c2)

\* C12: after any operations of the cursor, failed ones included, what is
\* left is the input without the bytes consumed, the operation has not given
\* bytes back, line is 1 + the newlines consumed, column is 1 + the bytes
\* consumed after the last newline consumed, and the position of an error is
\* not before the position the cursor had reached before the failed call.
C12_CursorPosition ==
    /\ Len(bytes) <= Len(src.input)
    /\ bytes = SubSeq(src.input, Len(src.input) - Len(bytes) + 1, Len(src.input))
    /\ Len(bytes) <= Len(ret.before.bytes)
    /\ line = LineAfter(ConsumedBytes)
    /\ column = ColumnAfter(ConsumedBytes)
    /\ (ret.op \in ResultOps /\ ~ret.val.ok)
           => /\ NotBefore(ret.val.line, ret.val.col, ret.before.line, ret.before.column)
              /\ NotBefore(line, column, ret.val.line, ret.val.col)

\* A call has failed on the second line of the input, after a successful call.
C12_Witness ==
    /\ src.family = "text" /\ nops = 2
    /\ ret.op \in ResultOps /\ ~ret.val.ok
    /\ ret.val.line = 2 /\ ret.val.col = 2
    /\ Len(ret.before.bytes) < Len(src.input)
    /\ Len(bytes) < Len(ret.before.bytes)

\* The bytes bs start with the literal s.
StartsWith(bs, s) == Len(bs) >= Len(s) /\ SubSeq(bs, 1, Len(s)) = s

\* The bytes bs start with the word s, and no identifier character follows it.
StartsWithWord(bs, s) ==
    /\ StartsWith(bs, s)
    /\ Len(bs) > Len(s) =>
          bs[Len(s) + 1] \notin (Ord("A")..Ord("Z")) \cup (Ord("a")..Ord("z"))
                                 \cup (Ord("0")..Ord("9")) \cup {Ord("_")}

\* The last call has moved the cursor over exactly the n bytes of s.
AdvancedOver(s) ==
    /\ bytes = SubSeq(ret.before.bytes, Len(s) + 1, Len(ret.before.bytes))
    /\ Len(bytes) = Len(ret.before.bytes) - Len(s)
    /\ line = ret.before.line + Cardinality({i \in 1..Len(s) : s[i] = LF})
    /\ column = IF \E i \in 1..Len(s) : s[i] = LF
                THEN ColumnAfter(s) ELSE ret.before.column + Len(s)

\* C13: consume(lit) is true and moves over exactly the bytes of lit when the
\* next bytes are lit, and is false with the cursor unchanged otherwise;
\* check_ident(word) leaves the cursor unchanged and is true iff the next
\* bytes are word and no identifier character follows; consume_ident(word)
\* moves over exactly the bytes of word iff check_ident(word) holds, and
\* leaves the cursor unchanged otherwise.
C13_ConsumeAllOrNothing ==
    /\ ret.op = "consume" =>
          /\ ret.val = StartsWith(ret.before.bytes, ret.arg)
          /\ IF ret.val THEN AdvancedOver(ret.arg) ELSE Cur = ret.before
    /\ ret.op = "check_ident" =>
          /\ ret.val = StartsWithWord(ret.before.bytes, ret.arg)
          /\ Cur = ret.before
    /\ ret.op = "consume_ident" =>
          /\ ret.val = StartsWithWord(ret.before.bytes, ret.arg)
          /\ IF ret.val THEN AdvancedOver(ret.arg) ELSE Cur = ret.before

\* consume("a") has moved over the a of `a1`, where check_ident("a") was false.
C13_Witness ==
    /\ src.family = "text" /\ src.input = <<Ord("a"), Ord("1")>>
    /\ nops = 2 /\ ret.op = "consume" /\ ret.arg = <<Ord("a")>>
    /\ ret.val = TRUE
    /\ ~StartsWithWord(ret.before.bytes, ret.arg)
    /\ bytes = <<Ord("1")>> /\ column = 2

\* The cursor is at the end of input or on a significant byte: one that is
\* not whitespace and does not open a comment.
AtSignificant ==
    \/ bytes = <<>>
    \/ /\ bytes[1] \notin {LF, Ord("\t"), Ord("\r"), Ord(" ")}
       /\ ~(Len(bytes) >= 2 /\ bytes[1] = SLASH /\ bytes[2] \in {SLASH, STAR})

\* C14: the skip_ws of Bytes::new returns on every input, an input that ends
\* inside a comment included, and once it has returned the cursor is at the
\* end of input or on a significant byte.
C14_SkipWsTerminates ==
    /\ <>(pc = "done")
    /\ [](pc = "done" => AtSignificant)

\* skip_ws has returned at the end of an input that ends inside a block comment.
C14_Witness ==
    /\ src.family = "ws" /\ pc = "done"
    /\ src.input = <<Ord(" "), SLASH, STAR, Ord("a")>>
    /\ bytes = <<>>

====
